---------------------------- MODULE Spec2Model ----------------------------
(***************************************************************************)
(* Model of the ferreteria bot: the text parser and category normaliser    *)
(* (src/database.py, src/ferreteria_bot.py), the PostgreSQL storage class   *)
(* FerreteriaDB (src/database.py), the SQLite fallback functions and the   *)
(* Telegram handlers (src/ferreteria_bot.py).                              *)
(*                                                                         *)
(* Texts are sequences of one-character strings, so that the regular       *)
(* expressions, startswith/replace/strip/lower and the substring tests are *)
(* computed character by character as Python computes them.                *)
(* A price is a record [ent, cent]: the float with at most two decimals    *)
(* that float() yields for the strings the three patterns can capture.     *)
(***************************************************************************)
EXTENDS Integers, Sequences, FiniteSets, TLC

VARIABLES
    pc,             \* the bot process: "off", "boot" (import time), "run", or
                    \* the query estadisticas_hoy is about to run ("est_...")
    DATABASE_URL,   \* os.getenv('DATABASE_URL'): NoURL or a parsed URL
    pgUp,           \* psycopg2.connect succeeds now (server reachable, login valid)
    USING_POSTGRES, \* the module global of ferreteria_bot.py
    conectoEnArranque, \* history: init_database opened a connection at startup
    sqliteIniciada, \* history: init_sqlite() has run in this process
    pgTabla,        \* PostgreSQL: the table productos exists
    pgProductos,    \* PostgreSQL: the rows of productos, in insertion order
    sqliteTabla,    \* ferreteria.db: the table productos exists
    sqliteProductos, \* ferreteria.db: the rows of productos, in insertion order
    reloj,          \* the wall clock, in seconds
    ult,            \* the last handler or method run: what it parsed, did,
                    \* returned and replied
    parsePc,        \* SpecParse: "idle", "call" (before the call) or "ret"
    texto,          \* SpecParse: the argument of extraer_precio_de_texto
    precioOut,      \* SpecParse: its return value
    categoriaOut,   \* SpecParse: the return value of normalizar_categoria
    PGHOST,         \* the discrete PGHOST..PGPASSWORD variables are set
    conexiones,     \* SpecConn: the connections the storage layer opened:
                    \* how many are still open, and what each was opened with
    dash            \* SpecDash: the dashboard process: db_type, the cache of
                    \* obtener_todos_los_datos and what the page last showed

envVars == <<DATABASE_URL, pgUp>>
pgVars == <<pgTabla, pgProductos>>
sqliteVars == <<sqliteTabla, sqliteProductos>>
storeVars == <<pgTabla, pgProductos, sqliteTabla, sqliteProductos>>
bootVars == <<pc, USING_POSTGRES, conectoEnArranque, sqliteIniciada>>
botVars == <<pc, DATABASE_URL, pgUp, USING_POSTGRES, conectoEnArranque,
             sqliteIniciada, pgTabla, pgProductos, sqliteTabla,
             sqliteProductos, reloj, ult>>
parseVars == <<parsePc, texto, precioOut, categoriaOut>>
\* what the handlers of the bot leave alone
fueraVars == <<parseVars, PGHOST, conexiones, dash>>
vars == <<botVars, fueraVars>>

(***************************************************************************)
(* Bounds of the model.                                                    *)
(***************************************************************************)
MaxTextLen == 5     \* longest generated text handed to the parser
MaxProductos == 2   \* rows a table holds before the model stops inserting
MaxReloj == 1       \* last second of the clock
SegPorDia == 1      \* seconds per calendar day, scaled down
MaxConexiones == 2  \* open connections counted before SpecConn stops

\* column types of productos (src/database.py, CREATE TABLE)
DecimalPrecision == 10       \* precio DECIMAL(10,2)
DecimalScale == 2
VarcharMax == 100            \* codigo VARCHAR(100)

(***************************************************************************)
(* Characters.                                                             *)
(***************************************************************************)
Digits == <<"0", "1", "2", "3", "4", "5", "6", "7", "8", "9">>

IsDigit(c) == \E d \in 1..10 : Digits[d] = c

DigitVal(c) == (CHOOSE d \in 1..10 : Digits[d] = c) - 1

\* \s of the re module, over the characters the model uses
IsSpace(c) == c = " "

\* Python's None, as a value that compares with a price record
None == [none |-> TRUE]

\* "no match" of re.search: every group of the three patterns holds at
\* least one digit, so the empty text is never a captured group
NoMatch == <<>>

\* t[i], or a character that matches nothing when i is past the end
At(t, i) == IF i >= 1 /\ i <= Len(t) THEN t[i] ELSE "<eos>"

Slice(t, a, b) == [k \in 1..(b - a + 1) |-> t[a + k - 1]]

(***************************************************************************)
(* The pieces of the three regular expressions of extraer_precio_de_texto. *)
(***************************************************************************)
RECURSIVE DigitRun(_, _)
\* number of consecutive digits of t from position i on (\d+, greedy)
DigitRun(t, i) == IF IsDigit(At(t, i)) THEN 1 + DigitRun(t, i + 1) ELSE 0

RECURSIVE SpaceRun(_, _)
\* number of consecutive whitespace characters from position i on (\s*)
SpaceRun(t, i) == IF IsSpace(At(t, i)) THEN 1 + SpaceRun(t, i + 1) ELSE 0

Min(a, b) == IF a < b THEN a ELSE b

\* (?:,\d{3}) at position i
GroupAt(t, i) ==
    /\ At(t, i) = ","
    /\ IsDigit(At(t, i + 1)) /\ IsDigit(At(t, i + 2)) /\ IsDigit(At(t, i + 3))

RECURSIVE GroupRun(_, _)
\* number of consecutive (?:,\d{3}) groups from position i on, greedy
GroupRun(t, i) == IF GroupAt(t, i) THEN 1 + GroupRun(t, i + 4) ELSE 0

\* (?:\.\d{2}) at position i
FracAt(t, i) ==
    At(t, i) = "." /\ IsDigit(At(t, i + 1)) /\ IsDigit(At(t, i + 2))

\* end (exclusive) of the greedy match of \d{1,3}(?:,\d{3})*(?:\.\d{2})?
\* that starts at the digit at position j; nothing follows the group in
\* pattern 1, so the first (greedy) attempt is the match
AmountEnd(t, j) ==
    LET k  == j + Min(3, DigitRun(t, j))
        k2 == k + 4 * GroupRun(t, k)
    IN  IF FracAt(t, k2) THEN k2 + 3 ELSE k2

\* pattern 1, r'\$\s*(\d{1,3}(?:,\d{3})*(?:\.\d{2})?)', anchored at i:
\* the captured group, or NoMatch
MatchPrefijo(t, i) ==
    IF At(t, i) # "$" THEN NoMatch
    ELSE LET j == i + 1 + SpaceRun(t, i + 1)
         IN  IF IsDigit(At(t, j)) THEN Slice(t, j, AmountEnd(t, j) - 1)
             ELSE NoMatch

\* \s*\$ at position e
SufijoAt(t, e) == At(t, e + SpaceRun(t, e)) = "$"

\* pattern 2, r'(\d{1,3}(?:,\d{3})*(?:\.\d{2})?)\s*\$', anchored at i.  The
\* amount is followed by \s*\$, so the matcher backtracks: fewer digits,
\* fewer groups, no fraction.  cands are the ways to match the amount, the
\* match is the one the backtracking order reaches first.
MatchSufijo(t, i) ==
    IF ~IsDigit(At(t, i)) THEN NoMatch
    ELSE LET cands ==
               { c \in [nd : 1..Min(3, DigitRun(t, i)),
                        ng : 0..Len(t),
                        fr : {0, 1}] :
                    /\ c.ng <= GroupRun(t, i + c.nd)
                    /\ c.fr = 1 => FracAt(t, i + c.nd + 4 * c.ng)
                    /\ SufijoAt(t, i + c.nd + 4 * c.ng + 3 * c.fr) }
             Prio(c) == c.nd * 2 * (Len(t) + 1) + c.ng * 2 + c.fr
         IN  IF cands = {} THEN NoMatch
             ELSE LET c == CHOOSE c \in cands :
                                \A d \in cands : Prio(d) <= Prio(c)
                  IN  Slice(t, i, i + c.nd + 4 * c.ng + 3 * c.fr - 1)

\* pattern 3, r'(\d+(?:\.\d{2})?)', anchored at i
MatchNumero(t, i) ==
    IF ~IsDigit(At(t, i)) THEN NoMatch
    ELSE LET k == i + DigitRun(t, i)
         IN  Slice(t, i, (IF FracAt(t, k) THEN k + 3 ELSE k) - 1)

\* the anchored matcher of pattern p
MatchAt(p, t, i) ==
    CASE p = 1 -> MatchPrefijo(t, i)
      [] p = 2 -> MatchSufijo(t, i)
      [] p = 3 -> MatchNumero(t, i)

\* re.search(patron, texto).group(1): the match at the leftmost position
\* where the pattern matches, NoMatch when it matches nowhere
Search(p, t) ==
    LET hits == { i \in 1..Len(t) : MatchAt(p, t, i) # NoMatch }
    IN  IF hits = {} THEN NoMatch
        ELSE MatchAt(p, t, CHOOSE i \in hits : \A h \in hits : i <= h)

\* str.replace(',', '')
QuitarComas(s) == SelectSeq(s, LAMBDA c : c # ",")

RECURSIVE Entero(_)
\* the integer a digit string denotes
Entero(s) ==
    IF s = <<>> THEN 0
    ELSE 10 * Entero(SubSeq(s, 1, Len(s) - 1)) + DigitVal(s[Len(s)])

\* float(precio_str) for digits with an optional two-digit fraction; the
\* three patterns capture nothing else once the commas are removed, so the
\* ValueError branch of the source is never taken
Float(s) ==
    LET n == DigitRun(s, 1)
    IN  [ent  |-> Entero(SubSeq(s, 1, n)),
         cent |-> IF n < Len(s) THEN Entero(SubSeq(s, n + 2, n + 3)) ELSE 0]

\* the mutant of extraer_precio_de_texto used by C11: the catch-all
\* pattern is tried first
extraer_precio_numero_primero(t) ==
    IF Search(3, t) # NoMatch THEN Float(QuitarComas(Search(3, t)))
    ELSE IF Search(1, t) # NoMatch THEN Float(QuitarComas(Search(1, t)))
    ELSE IF Search(2, t) # NoMatch THEN Float(QuitarComas(Search(2, t)))
    ELSE None

\* extraer_precio_de_texto: the first of the three patterns that matches
extraer_precio_de_texto(t) ==
    IF Search(1, t) # NoMatch THEN Float(QuitarComas(Search(1, t)))
    ELSE IF Search(2, t) # NoMatch THEN Float(QuitarComas(Search(2, t)))
    ELSE IF Search(3, t) # NoMatch THEN Float(QuitarComas(Search(3, t)))
    ELSE None

(***************************************************************************)
(* str methods used by the handlers and by normalizar_categoria.           *)
(***************************************************************************)
Mayusculas == <<"A", "B", "C", "D", "E", "F", "G", "H", "I", "J", "K",
        "L", "M", "N", "O", "P", "Q", "R", "S", "T", "U", "V", "W", "X",
        "Y", "Z", "Á", "É", "Í", "Ó", "Ú", "Ñ">>
Minusculas == <<"a", "b", "c", "d", "e", "f", "g", "h", "i", "j", "k",
        "l", "m", "n", "o", "p", "q", "r", "s", "t", "u", "v", "w", "x",
        "y", "z", "á", "é", "í", "ó", "ú", "ñ">>

\* str.lower() of one character
LowerChar(c) ==
    IF \E k \in 1..Len(Mayusculas) : Mayusculas[k] = c
    THEN Minusculas[CHOOSE k \in 1..Len(Mayusculas) : Mayusculas[k] = c]
    ELSE c

\* str.lower()
Lower(s) == [k \in 1..Len(s) |-> LowerChar(s[k])]

\* s[i:].startswith(p)
StartsWithAt(s, i, p) ==
    /\ i + Len(p) - 1 <= Len(s)
    /\ \A k \in 1..Len(p) : s[i + k - 1] = p[k]

\* str.startswith
StartsWith(s, p) == StartsWithAt(s, 1, p)

\* p in s
Contains(s, p) == \E i \in 1..(Len(s) + 1) : StartsWithAt(s, i, p)

RECURSIVE ReplaceFrom(_, _, _)
\* s[i:].replace(p, ''): every non-overlapping occurrence, left to right
ReplaceFrom(s, i, p) ==
    IF i > Len(s) THEN <<>>
    ELSE IF StartsWithAt(s, i, p) THEN ReplaceFrom(s, i + Len(p), p)
    ELSE <<s[i]>> \o ReplaceFrom(s, i + 1, p)

\* str.replace(p, '')
Replace(s, p) == ReplaceFrom(s, 1, p)

RECURSIVE SpaceRunBack(_, _)
\* number of whitespace characters that end at position i
SpaceRunBack(s, i) ==
    IF IsSpace(At(s, i)) THEN 1 + SpaceRunBack(s, i - 1) ELSE 0

\* str.strip()
Strip(s) ==
    LET a == SpaceRun(s, 1)
    IN  IF a = Len(s) THEN <<>>
        ELSE SubSeq(s, a + 1, Len(s) - SpaceRunBack(s, Len(s)))

(***************************************************************************)
(* normalizar_categoria.                                                   *)
(***************************************************************************)
VerdeAgricultura == <<"V", "e", "r", "d", "e", "-", "A", "g", "r", "i",
        "c", "u", "l", "t", "u", "r", "a">>
RojoConstruccion == <<"R", "o", "j", "o", "-", "C", "o", "n", "s", "t",
        "r", "u", "c", "c", "i", "ó", "n">>
AmarilloPintura == <<"A", "m", "a", "r", "i", "l", "l", "o", "-", "P",
        "i", "n", "t", "u", "r", "a">>
SinCategoria == <<"S", "i", "n", " ", "c", "a", "t", "e", "g", "o", "r",
        "í", "a">>

Categorias ==
    {VerdeAgricultura, RojoConstruccion, AmarilloPintura, SinCategoria}

\* the keywords of normalizar_categoria
KwVerde == <<"v", "e", "r", "d", "e">>
KwAgricultura == <<"a", "g", "r", "i", "c", "u", "l", "t", "u", "r", "a">>
KwRojo == <<"r", "o", "j", "o">>
KwConstruccionTilde == <<"c", "o", "n", "s", "t", "r", "u", "c", "c", "i",
        "ó", "n">>
KwConstruccion == <<"c", "o", "n", "s", "t", "r", "u", "c", "c", "i", "o",
        "n">>
KwAmarillo == <<"a", "m", "a", "r", "i", "l", "l", "o">>
KwPintura == <<"p", "i", "n", "t", "u", "r", "a">>

\* the if/elif chain of normalizar_categoria over texto_lower
CategoriaDe(texto_lower) ==
    IF Contains(texto_lower, KwVerde) \/ Contains(texto_lower, KwAgricultura)
    THEN VerdeAgricultura
    ELSE IF \/ Contains(texto_lower, KwRojo)
            \/ Contains(texto_lower, KwConstruccionTilde)
            \/ Contains(texto_lower, KwConstruccion)
    THEN RojoConstruccion
    ELSE IF Contains(texto_lower, KwAmarillo) \/ Contains(texto_lower, KwPintura)
    THEN AmarilloPintura
    ELSE SinCategoria

\* the mutant of normalizar_categoria used by C9: a text with no keyword
\* is passed through
normalizar_categoria_passthrough(t) ==
    IF CategoriaDe(Lower(t)) = SinCategoria THEN t ELSE CategoriaDe(Lower(t))

\* the mutant of normalizar_categoria used by C12: the keywords are
\* looked up in the text as written
normalizar_categoria_sin_lower(t) == CategoriaDe(t)

normalizar_categoria(t) == CategoriaDe(Lower(t))

(***************************************************************************)
(* handle_photo: the parse of the service's response, line by line.        *)
(* A response is the sequence of its lines (resultado_gemini.strip()       *)
(* .split('\n')).                                                          *)
(***************************************************************************)
\* the labels of the response's lines, and the codes read as absent
LblPrecio == <<"P", "R", "E", "C", "I", "O", ":">>
LblCategoriaTilde == <<"C", "A", "T", "E", "G", "O", "R", "Í", "A", ":">>
LblCategoria == <<"C", "A", "T", "E", "G", "O", "R", "I", "A", ":">>
LblCodigoTilde == <<"C", "Ó", "D", "I", "G", "O", ":">>
LblCodigo == <<"C", "O", "D", "I", "G", "O", ":">>
LblDescripcionTilde == <<"D", "E", "S", "C", "R", "I", "P", "C", "I", "Ó",
        "N", ":">>
LblDescripcion == <<"D", "E", "S", "C", "R", "I", "P", "C", "I", "O", "N",
        ":">>
CodigoNoVisible == <<"n", "o", " ", "v", "i", "s", "i", "b", "l", "e">>
CodigoNoEncontrado == <<"n", "o", " ", "e", "n", "c", "o", "n", "t", "r",
        "a", "d", "o">>
NoVisible == <<"N", "o", " ", "v", "i", "s", "i", "b", "l", "e">>
SinDescripcion == <<"S", "i", "n", " ", "d", "e", "s", "c", "r", "i", "p",
        "c", "i", "ó", "n">>

\* the values before the first line is read
ParseoInicial ==
    [precio |-> None, categoria |-> SinCategoria,
     codigo |-> NoVisible, descripcion |-> SinDescripcion]

\* `if codigo.lower() in ['no visible', 'no encontrado', '']`
CodigoLeido(codigo) ==
    IF Lower(codigo) \in {CodigoNoVisible, CodigoNoEncontrado, <<>>}
    THEN NoVisible ELSE codigo

\* the body of the for loop, for a line already stripped
ParsearLineaLimpia(d, linea) ==
    IF StartsWith(linea, LblPrecio)
    THEN [d EXCEPT !.precio =
            extraer_precio_de_texto(Strip(Replace(linea, LblPrecio)))]
    ELSE IF \/ StartsWith(linea, LblCategoriaTilde)
            \/ StartsWith(linea, LblCategoria)
    THEN [d EXCEPT !.categoria =
            normalizar_categoria(
                Strip(Replace(Replace(linea, LblCategoriaTilde),
                              LblCategoria)))]
    ELSE IF StartsWith(linea, LblCodigoTilde) \/ StartsWith(linea, LblCodigo)
    THEN [d EXCEPT !.codigo =
            CodigoLeido(Strip(Replace(Replace(linea, LblCodigoTilde),
                                      LblCodigo)))]
    ELSE IF \/ StartsWith(linea, LblDescripcionTilde)
            \/ StartsWith(linea, LblDescripcion)
    THEN [d EXCEPT !.descripcion =
            Strip(Replace(Replace(linea, LblDescripcionTilde),
                          LblDescripcion))]
    ELSE d

\* the body of the for loop, for one line: linea = linea.strip() first
ParsearLinea(d, linea) == ParsearLineaLimpia(d, Strip(linea))

RECURSIVE ParsearDesde(_, _, _)
ParsearDesde(d, lineas, i) ==
    IF i > Len(lineas) THEN d
    ELSE ParsearDesde(ParsearLinea(d, lineas[i]), lineas, i + 1)

\* precio, categoria, codigo, descripcion after the loop
ParsearRespuesta(lineas) == ParsearDesde(ParseoInicial, lineas, 1)

(***************************************************************************)
(* Prices, timestamps and the SQL the storage operations run.              *)
(* A timestamp is [t, u]: t the second, u the sub-second part.  PostgreSQL *)
(* keeps microseconds, and two statements of one client never share an     *)
(* instant, so u is the number of rows stored before; SQLite's             *)
(* CURRENT_TIMESTAMP has the resolution of a second, so u is 0.            *)
(***************************************************************************)
Cero == [ent |-> 0, cent |-> 0]

\* precio > 0 for a float
Positivo(precio) == precio.ent > 0 \/ precio.cent > 0

\* a + b
Suma(a, b) ==
    [ent  |-> a.ent + b.ent + ((a.cent + b.cent) \div 100),
     cent |-> (a.cent + b.cent) % 100]

RECURSIVE Pow10(_)
Pow10(n) == IF n = 0 THEN 1 ELSE 10 * Pow10(n - 1)

\* the value fits precio DECIMAL(10,2); else "numeric field overflow"
FitsDecimal(precio) == precio.ent < Pow10(DecimalPrecision - DecimalScale)

\* the value fits a VARCHAR(100) column; else "value too long"
FitsVarchar(s) == Len(s) <= VarcharMax

\* DATE(fecha_hora)
Dia(ts) == ts.t \div SegPorDia

TsMayor(a, b) == a.t > b.t \/ (a.t = b.t /\ a.u > b.u)

\* WHERE DATE(fecha_hora) = d
DelDia(rows, d) == SelectSeq(rows, LAMBDA r : Dia(r.fecha_hora) = d)

RECURSIVE SumaPrecios(_)
\* SUM(precio)
SumaPrecios(rows) ==
    IF rows = <<>> THEN Cero
    ELSE Suma(rows[1].precio, SumaPrecios(Tail(rows)))

\* the results ORDER BY fecha_hora DESC allows: every arrangement of the
\* rows with no later row after an earlier one (rows with equal timestamps
\* come in an order SQL leaves open)
OrdenadosDesc(rows) ==
    LET n == Len(rows)
        perms == { f \in [1..n -> 1..n] : \A i, j \in 1..n : i # j => f[i] # f[j] }
    IN  { [k \in 1..n |-> rows[f[k]]] : f \in
            { f \in perms : \A i, j \in 1..n :
                i < j => ~TsMayor(rows[f[j]].fecha_hora, rows[f[i]].fecha_hora) } }

\* GROUP BY categoria with COUNT(*) and SUM(precio)
PorCategoria(rows) ==
    [c \in { rows[k].categoria : k \in 1..Len(rows) } |->
        LET g == SelectSeq(rows, LAMBDA r : r.categoria = c)
        IN  [cantidad |-> Len(g), total |-> SumaPrecios(g)]]

(***************************************************************************)
(* FerreteriaDB (src/database.py).  A method is an operator from the       *)
(* server's state to [res, val, rows]: res is "ok" or "raise" (an          *)
(* exception leaves the method), val the value returned, rows the table    *)
(* afterwards.  falla is an operation failure of an otherwise healthy      *)
(* backend (psycopg2.Error while the statement runs).                      *)
(***************************************************************************)
NoURL == [set |-> FALSE, puerto |-> ""]
URLs == [set : {TRUE}, puerto : {"5432", "abc"}]

\* urlparse(database_url).port raises ValueError for a port that is no number
PuertoEsNumero(url) == url.puerto = "5432"

\* _get_db_params: TRUE when it raises
get_db_params_raises(url) == url.set /\ ~PuertoEsNumero(url)

\* get_connection: a connection, or None on any exception of connect
get_connection(up) == IF up THEN "conn" ELSE "None"

\* init_database: CREATE TABLE IF NOT EXISTS and the two indexes; returns
\* whether the table exists afterwards; every exception is caught
init_database(up, tabla, falla) ==
    IF get_connection(up) = "None" THEN tabla
    ELSE IF falla THEN tabla
    ELSE TRUE

\* FerreteriaDB(): [raised, conecto, tabla]
FerreteriaDB_init(url, up, tabla, falla) ==
    IF get_db_params_raises(url)
    THEN [raised |-> TRUE, conecto |-> FALSE, tabla |-> tabla]
    ELSE [raised |-> FALSE, conecto |-> get_connection(up) # "None",
          tabla |-> init_database(up, tabla, falla)]

\* the INSERT statement fails in the server: no table, or a value that
\* does not fit its column
InsertRejected(tabla, prod) ==
    \/ ~tabla
    \/ ~FitsDecimal(prod.precio)
    \/ ~FitsVarchar(prod.categoria)
    \/ ~FitsVarchar(prod.codigo)
    \/ ~FitsVarchar(prod.usuario_nombre)

\* the row INSERT ... RETURNING id stores: id from the sequence, fecha_hora
\* DEFAULT CURRENT_TIMESTAMP
NuevaFila(rows, prod, ts) ==
    [id |-> Len(rows) + 1, precio |-> prod.precio,
     categoria |-> prod.categoria, codigo |-> prod.codigo,
     descripcion |-> prod.descripcion, fecha_hora |-> ts,
     usuario_telegram |-> prod.usuario_telegram,
     usuario_nombre |-> prod.usuario_nombre]

\* the mutant of insertar_producto used by C8: the new row replaces the
\* rows of the table
insertar_producto_reemplaza(up, tabla, rows, t, falla, prod) ==
    IF get_connection(up) = "None"
    THEN [res |-> "raise", val |-> FALSE, rows |-> rows]
    ELSE IF falla \/ InsertRejected(tabla, prod)
    THEN [res |-> "ok", val |-> FALSE, rows |-> rows]
    ELSE [res |-> "ok", val |-> TRUE,
          rows |-> <<NuevaFila(rows, prod, [t |-> t, u |-> Len(rows)])>>]

\* insertar_producto: `with self.get_connection() as conn` raises on None
\* (None is no context manager) before `if conn is None` is reached, and
\* the except clause catches psycopg2.Error only
insertar_producto(up, tabla, rows, t, falla, prod) ==
    IF get_connection(up) = "None"
    THEN [res |-> "raise", val |-> FALSE, rows |-> rows]
    ELSE IF falla \/ InsertRejected(tabla, prod)
    THEN [res |-> "ok", val |-> FALSE, rows |-> rows]
    ELSE [res |-> "ok", val |-> TRUE,
          rows |-> Append(rows, NuevaFila(rows, prod, [t |-> t, u |-> Len(rows)]))]

\* obtener_ventas_hoy: the rows of today, latest first
obtener_ventas_hoy(up, tabla, rows, t, falla) ==
    IF get_connection(up) = "None" THEN [res |-> "raise", val |-> <<>>]
    ELSE IF falla \/ ~tabla THEN [res |-> "ok", val |-> <<>>]
    ELSE [res |-> "ok",
          val |-> CHOOSE o \in OrdenadosDesc(DelDia(rows, t \div SegPorDia)) : TRUE]

\* the mutant of obtener_total_ventas_hoy used by C13: the WHERE clause
\* on the date is missing
obtener_total_ventas_sin_fecha(up, tabla, rows, t, falla) ==
    IF get_connection(up) = "None" THEN [res |-> "raise", val |-> Cero]
    ELSE IF falla \/ ~tabla THEN [res |-> "ok", val |-> Cero]
    ELSE [res |-> "ok", val |-> SumaPrecios(rows)]

\* obtener_total_ventas_hoy: COALESCE(SUM(precio), 0) of today
obtener_total_ventas_hoy(up, tabla, rows, t, falla) ==
    IF get_connection(up) = "None" THEN [res |-> "raise", val |-> Cero]
    ELSE IF falla \/ ~tabla THEN [res |-> "ok", val |-> Cero]
    ELSE [res |-> "ok", val |-> SumaPrecios(DelDia(rows, t \div SegPorDia))]

\* the mutant of obtener_productos_por_categoria used by C21: the WHERE
\* clause on the date is missing
obtener_productos_por_categoria_sin_fecha(up, tabla, rows, t, falla) ==
    IF get_connection(up) = "None" THEN [res |-> "raise", val |-> <<>>]
    ELSE IF falla \/ ~tabla THEN [res |-> "ok", val |-> <<>>]
    ELSE [res |-> "ok", val |-> PorCategoria(rows)]

\* obtener_productos_por_categoria: categoria -> {cantidad, total} of today
obtener_productos_por_categoria(up, tabla, rows, t, falla) ==
    IF get_connection(up) = "None" THEN [res |-> "raise", val |-> <<>>]
    ELSE IF falla \/ ~tabla THEN [res |-> "ok", val |-> <<>>]
    ELSE [res |-> "ok", val |-> PorCategoria(DelDia(rows, t \div SegPorDia))]

\* obtener_todos_productos: every row, latest first
obtener_todos_productos(up, tabla, rows, t, falla) ==
    IF get_connection(up) = "None" THEN [res |-> "raise", val |-> <<>>]
    ELSE IF falla \/ ~tabla THEN [res |-> "ok", val |-> <<>>]
    ELSE [res |-> "ok", val |-> CHOOSE o \in OrdenadosDesc(rows) : TRUE]

(***************************************************************************)
(* The SQLite fallback of ferreteria_bot.py.                               *)
(***************************************************************************)
\* insertar_producto_sqlite: every exception is caught and gives False
insertar_producto_sqlite(tabla, rows, t, falla, prod) ==
    IF falla \/ ~tabla THEN [val |-> FALSE, rows |-> rows]
    ELSE [val |-> TRUE,
          rows |-> Append(rows, NuevaFila(rows, prod, [t |-> t, u |-> 0]))]

\* init_sqlite: CREATE TABLE IF NOT EXISTS; the table exists afterwards
init_sqlite(tabla) == TRUE

(***************************************************************************)
(* The inputs of the handlers: the users that write to the bot and the     *)
(* texts the image-understanding service returns.                          *)
(***************************************************************************)
NombreAna == <<"A", "n", "a">>
NombrePorDefecto == <<"U", "s", "u", "a", "r", "i", "o">>

\* update.effective_user
Usuarios == {[id |-> 1, first_name |-> NombreAna]}

LineaPrecio == <<"P", "R", "E", "C", "I", "O", ":", " ", "$", "1", "2",
        ".", "5", "0">>
LineaPrecioCero == <<"P", "R", "E", "C", "I", "O", ":", " ", "$", "0">>
LineaPrecioNoVisible == <<"P", "R", "E", "C", "I", "O", ":", " ", "N",
        "o", " ", "v", "i", "s", "i", "b", "l", "e">>
LineaPrecioEnorme == <<"P", "R", "E", "C", "I", "O", ":", " ", "$", "1",
        "0", "0", ",", "0", "0", "0", ",", "0", "0", "0">>
LineaCategoriaRojo == <<"C", "A", "T", "E", "G", "O", "R", "Í", "A", ":",
        " ", "R", "o", "j", "o", " ", "-", " ", "C", "o", "n", "s", "t",
        "r", "u", "c", "c", "i", "ó", "n">>
LineaCategoriaAzul == <<"C", "A", "T", "E", "G", "O", "R", "I", "A", ":",
        " ", "a", "z", "u", "l">>
LineaCodigo == <<"C", "Ó", "D", "I", "G", "O", ":", " ", "A", "1">>
LineaDescripcion == <<" ", " ", "D", "E", "S", "C", "R", "I", "P", "C",
        "I", "Ó", "N", ":", " ", "P", "a", "l", "a", " ">>
LineaDescripcionVacia == <<"D", "E", "S", "C", "R", "I", "P", "C", "I",
        "O", "N", ":">>
LineaLibre == <<"E", "t", "i", "q", "u", "e", "t", "a", " ", "v", "e",
        "r", "d", "e", " ", "3", "5", "0">>

\* the lines the one- and two-line responses are made of
LineasPrecio == {LineaPrecio, LineaPrecioCero, LineaPrecioNoVisible}

\* lines that name no category
LineasOtras == {LineaCategoriaAzul, LineaLibre}

Lineas == LineasPrecio \cup LineasOtras \cup {LineaCategoriaRojo}

\* response.text: one line; a price line and a line without category, in
\* either order; the four lines of the prompt's format, in its order and
\* reversed; several category lines before or after the price; an empty
\* description; a price that exceeds DECIMAL(10,2)
Respuestas ==
    { <<a>> : a \in Lineas }
        \cup { <<a, b>> : a \in LineasPrecio, b \in LineasOtras }
        \cup { <<b, a>> : a \in LineasPrecio, b \in LineasOtras }
        \cup { <<a, LineaCategoriaRojo, LineaCodigo, LineaDescripcion>> :
                  a \in LineasPrecio }
        \cup { <<LineaDescripcion, LineaCodigo, LineaCategoriaRojo, a>> :
                  a \in LineasPrecio }
        \cup { <<LineaCategoriaRojo, LineaCategoriaAzul, LineaPrecio>>,
               <<LineaPrecio, LineaCategoriaAzul, LineaCategoriaRojo,
                 LineaCodigo, LineaDescripcion>>,
               <<LineaPrecio, LineaDescripcionVacia>>,
               <<LineaPrecioEnorme, LineaCategoriaAzul>> }

\* where handle_photo's calls into the transport and the service fail:
\* nowhere, while the photo is fetched, or in generate_content
Etapas == {"ok", "descarga", "gemini"}

(***************************************************************************)
(* The record of the last run.                                             *)
(***************************************************************************)
NoInforme == [hay |-> FALSE, total |-> Cero, productos |-> 0, porCat |-> <<>>]
NoRet == [op |-> "none", res |-> "ok", val |-> FALSE]

\* h: the handler; parseado: handle_photo read response.text and parsed it;
\* precio: the price it extracted; guardado: guardado_exitoso; db_usado: the
\* local of handle_photo; respuestas: the replies sent, in order; informe:
\* the figures of the /estadisticas reply; ret: the last FerreteriaDB call
Ult(h, respuestas) ==
    [h |-> h, parseado |-> FALSE, precio |-> None, guardado |-> FALSE,
     db_usado |-> "unbound", respuestas |-> respuestas,
     informe |-> NoInforme, ret |-> NoRet]

(***************************************************************************)
(* Startup: the module-level code of ferreteria_bot.py.                    *)
(***************************************************************************)
Arranque(falla) ==
    /\ pc = "boot"
    /\ \E r \in {FerreteriaDB_init(DATABASE_URL, pgUp, pgTabla, falla)} :
           /\ USING_POSTGRES' = ~r.raised
           /\ conectoEnArranque' = r.conecto
           /\ pgTabla' = r.tabla
           /\ sqliteIniciada' = r.raised
           /\ sqliteTabla' = IF r.raised THEN init_sqlite(sqliteTabla)
                             ELSE sqliteTabla
    /\ pc' = "run"
    /\ ult' = Ult("arranque", <<>>)
    /\ UNCHANGED <<envVars, pgProductos, sqliteProductos, reloj, fueraVars>>

(***************************************************************************)
(* handle_photo.                                                           *)
(***************************************************************************)
\* the mutant of PrecioValido used by C3: `if precio is not None`
PrecioPresente(precio) == precio # None

\* `if precio and precio > 0`
PrecioValido(precio) == precio # None /\ precio # Cero /\ Positivo(precio)

\* the mutant of BackendTras used by C5: a handler whose storage operation
\* failed gives up PostgreSQL for the rest of the run
BackendTrasFallo(using, ok) == using /\ ok

\* no handler assigns the global USING_POSTGRES: its value after a handler
\* that saw the storage result ok
BackendTras(using, ok) == using

\* user.first_name or "Usuario"
UserName(user) ==
    IF user.first_name = <<>> THEN NombrePorDefecto ELSE user.first_name

\* the arguments of the insert
Producto(user, d) ==
    [precio |-> d.precio, categoria |-> d.categoria, codigo |-> d.codigo,
     descripcion |-> d.descripcion, usuario_telegram |-> user.id,
     usuario_nombre |-> UserName(user)]

\* handle_photo after db.insertar_producto gave r (PostgreSQL branch): an
\* exception of the method reaches the handler's except clause
FotoPostgres(d, r) ==
    [pg |-> r.rows, sqlite |-> sqliteProductos, ok |-> r.res = "ok" /\ r.val,
     ult |-> [Ult("handle_photo", <<"analizando">>) EXCEPT
        !.parseado = TRUE,
        !.precio = d.precio,
        !.ret = [op |-> "insertar_producto", res |-> r.res, val |-> r.val],
        !.guardado = r.res = "ok" /\ r.val,
        !.db_usado = IF r.res = "ok" THEN "PostgreSQL" ELSE "unbound",
        !.respuestas =
            IF r.res = "raise" THEN <<"analizando", "error_imagen">>
            ELSE IF r.val THEN <<"analizando", "registrado">>
            ELSE <<"analizando", "no_guardado">>]]

\* handle_photo after insertar_producto_sqlite gave r (SQLite branch)
FotoSqlite(d, r) ==
    [pg |-> pgProductos, sqlite |-> r.rows, ok |-> r.val,
     ult |-> [Ult("handle_photo", <<"analizando">>) EXCEPT
        !.parseado = TRUE,
        !.precio = d.precio,
        !.guardado = r.val,
        !.db_usado = "SQLite",
        !.respuestas =
            IF r.val THEN <<"analizando", "registrado">>
            ELSE <<"analizando", "no_guardado">>]]

\* the mutant of FotoNoGuardada used by C4: the reply is chosen as if the
\* record had been saved
FotoNoGuardadaRegistra(d) ==
    [pg |-> pgProductos, sqlite |-> sqliteProductos, ok |-> TRUE,
     ult |-> [Ult("handle_photo", <<"analizando", "registrado">>)
                EXCEPT !.parseado = TRUE, !.precio = d.precio]]

\* handle_photo with no insert: guardado_exitoso stays False, the 'not
\* saved' reply is sent, then logger.info reads db_usado, which is unbound:
\* UnboundLocalError, caught by the except clause, which replies again
FotoNoGuardada(d) ==
    [pg |-> pgProductos, sqlite |-> sqliteProductos, ok |-> TRUE,
     ult |-> [Ult("handle_photo",
                  <<"analizando", "no_guardado", "error_imagen">>)
                EXCEPT !.parseado = TRUE, !.precio = d.precio]]

\* the body of handle_photo once the response is parsed into d: the new
\* tables and the record of the run
FotoParseada(user, d, falla) ==
    IF ~PrecioValido(d.precio) THEN FotoNoGuardada(d)
    ELSE IF USING_POSTGRES
    THEN FotoPostgres(d, insertar_producto(pgUp, pgTabla, pgProductos, reloj,
                                           falla, Producto(user, d)))
    ELSE FotoSqlite(d, insertar_producto_sqlite(sqliteTabla, sqliteProductos,
                                                reloj, falla, Producto(user, d)))

\* what the for loop leaves for the responses of the model: handle_photo
\* depends on response.text through these values only
Parseadas == { ParsearRespuesta(resp) : resp \in Respuestas }

\* d is the parse of response.text (unused when etapa is not "ok")
HandlePhoto(user, d, etapa, falla) ==
    /\ pc = "run"
    /\ IF etapa = "descarga"
       THEN /\ ult' = Ult("handle_photo", <<"error_imagen">>)
            /\ UNCHANGED <<pgProductos, sqliteProductos, USING_POSTGRES>>
       ELSE IF etapa = "gemini"
       THEN /\ ult' = Ult("handle_photo", <<"analizando", "error_imagen">>)
            /\ UNCHANGED <<pgProductos, sqliteProductos, USING_POSTGRES>>
       ELSE \E f \in {FotoParseada(user, d, falla)} :
                /\ Len(f.pg) <= MaxProductos
                /\ Len(f.sqlite) <= MaxProductos
                /\ pgProductos' = f.pg
                /\ sqliteProductos' = f.sqlite
                /\ ult' = f.ult
                /\ USING_POSTGRES' = BackendTras(USING_POSTGRES, f.ok)
    /\ UNCHANGED <<pc, envVars, conectoEnArranque, sqliteIniciada, pgTabla,
                   sqliteTabla, reloj, fueraVars>>

(***************************************************************************)
(* estadisticas_hoy.  fallas are the queries that fail in the server.      *)
(***************************************************************************)
Consultas == {"total", "ventas", "categorias"}

\* the report, or the handler's except clause when a method raised
InformePostgres(total, ventas, cats) ==
    IF total.res = "raise" \/ ventas.res = "raise" \/ cats.res = "raise"
    THEN [Ult("estadisticas_hoy", <<"error_estadisticas">>) EXCEPT
            !.ret = [op |-> "obtener_total_ventas_hoy", res |-> "raise",
                     val |-> FALSE]]
    ELSE [Ult("estadisticas_hoy", <<"estadisticas">>) EXCEPT
            !.informe = [hay |-> TRUE, total |-> total.val,
                         productos |-> Len(ventas.val),
                         porCat |-> cats.val]]

\* the PostgreSQL branch: the three methods of db, then len(ventas_hoy)
EstadisticasPostgres(fallas) ==
    InformePostgres(
        obtener_total_ventas_hoy(pgUp, pgTabla, pgProductos, reloj,
                                 "total" \in fallas),
        obtener_ventas_hoy(pgUp, pgTabla, pgProductos, reloj,
                           "ventas" \in fallas),
        obtener_productos_por_categoria(pgUp, pgTabla, pgProductos, reloj,
                                        "categorias" \in fallas))

\* the report over the rows of today
InformeSqlite(hoy) ==
    [Ult("estadisticas_hoy", <<"estadisticas">>) EXCEPT
        !.informe = [hay |-> TRUE, total |-> SumaPrecios(hoy),
                     productos |-> Len(hoy), porCat |-> PorCategoria(hoy)]]

\* the SQLite branch: COUNT(*) and SUM(precio) of today, then the same per
\* category; an exception of sqlite3 reaches the handler's except clause
EstadisticasSqlite(fallas) ==
    IF fallas # {} \/ ~sqliteTabla
    THEN Ult("estadisticas_hoy", <<"error_estadisticas">>)
    ELSE InformeSqlite(DelDia(sqliteProductos, reloj \div SegPorDia))

EstadisticasHoy(fallas) ==
    /\ pc = "run"
    /\ ult' = IF USING_POSTGRES THEN EstadisticasPostgres(fallas)
              ELSE EstadisticasSqlite(fallas)
    /\ USING_POSTGRES' = BackendTras(USING_POSTGRES, ult'.informe.hay)
    /\ UNCHANGED <<pc, envVars, conectoEnArranque, sqliteIniciada, storeVars,
                   reloj, fueraVars>>

(***************************************************************************)
(* The handlers that only reply: start, help_command, handle_text,         *)
(* dashboard_command.  Each reads USING_POSTGRES for its status line.      *)
(***************************************************************************)
SoloResponde(h, respuesta) ==
    /\ pc = "run"
    /\ ult' = Ult(h, <<respuesta>>)
    /\ UNCHANGED <<pc, envVars, USING_POSTGRES, conectoEnArranque,
                   sqliteIniciada, storeVars, reloj, fueraVars>>

Start == SoloResponde("start", "bienvenida")

HelpCommand == SoloResponde("help_command", "ayuda")

HandleText == SoloResponde("handle_text", "envia_foto")

DashboardCommand == SoloResponde("dashboard_command", "enlace_dashboard")

(***************************************************************************)
(* A read method of db called by a client of the class (the bot calls     *)
(* three of them in estadisticas_hoy; obtener_todos_productos is for the   *)
(* dashboard).  db exists only when FerreteriaDB() returned.               *)
(***************************************************************************)
Lecturas ==
    {"obtener_ventas_hoy", "obtener_total_ventas_hoy",
     "obtener_productos_por_categoria", "obtener_todos_productos"}

Lectura(op, falla) ==
    CASE op = "obtener_ventas_hoy" ->
            obtener_ventas_hoy(pgUp, pgTabla, pgProductos, reloj, falla)
      [] op = "obtener_total_ventas_hoy" ->
            obtener_total_ventas_hoy(pgUp, pgTabla, pgProductos, reloj, falla)
      [] op = "obtener_productos_por_categoria" ->
            obtener_productos_por_categoria(pgUp, pgTabla, pgProductos, reloj, falla)
      [] op = "obtener_todos_productos" ->
            obtener_todos_productos(pgUp, pgTabla, pgProductos, reloj, falla)

LlamarLectura(op, falla) ==
    /\ pc = "run"
    /\ USING_POSTGRES
    /\ \E r \in {Lectura(op, falla)} :
          ult' = [Ult("lectura", <<>>) EXCEPT
                     !.ret = [op |-> op, res |-> r.res, val |-> r.val]]
    /\ UNCHANGED <<pc, envVars, USING_POSTGRES, conectoEnArranque,
                   sqliteIniciada, storeVars, reloj, fueraVars>>

(***************************************************************************)
(* The environment: the server comes and goes, time passes.                *)
(***************************************************************************)
CambiaServidor ==
    /\ pgUp' = ~pgUp
    /\ UNCHANGED <<DATABASE_URL, bootVars, storeVars, reloj, ult, fueraVars>>

Tick ==
    /\ reloj < MaxReloj
    /\ reloj' = reloj + 1
    /\ UNCHANGED <<envVars, bootVars, storeVars, ult, fueraVars>>

\* the process is stopped and started again: the module-level code runs
\* again, the tables stay
Reinicio ==
    /\ pc = "run"
    /\ pc' = "boot"
    /\ USING_POSTGRES' = FALSE
    /\ conectoEnArranque' = FALSE
    /\ sqliteIniciada' = FALSE
    /\ ult' = Ult("none", <<>>)
    /\ UNCHANGED <<envVars, storeVars, reloj, fueraVars>>

(***************************************************************************)
(* Spec: one run of the bot process.                                       *)
(***************************************************************************)
ParseIdle ==
    parsePc = "idle" /\ texto = <<>> /\ precioOut = None /\ categoriaOut = <<>>

\* no connection counted, no dashboard process
SinConexiones == [abiertas |-> 0, origenes |-> {}]
SinDashboard ==
    [db_type |-> "none", cache |-> [hay |-> FALSE, t |-> 0, datos |-> <<>>],
     visto |-> <<>>, evento |-> "none", recalculo |-> FALSE,
     error |-> FALSE]
FueraIdle == ParseIdle /\ PGHOST = TRUE /\ conexiones = SinConexiones
             /\ dash = SinDashboard

Init ==
    /\ pc = "boot"
    /\ DATABASE_URL \in {NoURL} \cup URLs
    /\ pgUp \in BOOLEAN
    /\ USING_POSTGRES = FALSE
    /\ conectoEnArranque = FALSE
    /\ sqliteIniciada = FALSE
    /\ pgTabla = FALSE
    /\ pgProductos = <<>>
    /\ sqliteTabla = FALSE
    /\ sqliteProductos = <<>>
    /\ reloj = 0
    /\ ult = Ult("none", <<>>)
    /\ FueraIdle

Next ==
    \/ \E falla \in BOOLEAN : Arranque(falla)
    \/ \E user \in Usuarios, etapa \in Etapas :
          \E d \in (IF etapa = "ok" THEN Parseadas ELSE {ParseoInicial}) :
             \E falla \in (IF etapa = "ok" /\ PrecioValido(d.precio)
                           THEN BOOLEAN ELSE {FALSE}) :
                HandlePhoto(user, d, etapa, falla)
    \/ \E fallas \in SUBSET Consultas : EstadisticasHoy(fallas)
    \/ Start
    \/ HelpCommand
    \/ HandleText
    \/ DashboardCommand
    \/ \E op \in Lecturas, falla \in BOOLEAN : LlamarLectura(op, falla)
    \/ CambiaServidor
    \/ Tick
    \/ Reinicio

Spec == Init /\ [][Next]_vars

(***************************************************************************)
(* SpecParse: the parser and the normaliser, each applied to every text    *)
(* over ParseAlphabet of length at most MaxTextLen, to the examples of the *)
(* docstring and to the category texts.                                    *)
(***************************************************************************)
ParseAlphabet == {"$", "1", "2", ",", ".", " "}

\* "$1,234.56" and "$1234" (docstring of extraer_precio_de_texto)
EjemploComas == <<"$", "1", ",", "2", "3", "4", ".", "5", "6">>
EjemploCorrido == <<"$", "1", "2", "3", "4">>

Textos ==
    UNION { [1..n -> ParseAlphabet] : n \in 0..MaxTextLen }
        \cup {EjemploComas, EjemploCorrido}

\* the pieces of the category texts: the keywords in lower case, the
\* category names, keywords in upper case, and text without keyword
Fragmentos ==
    {KwVerde, KwAgricultura, KwRojo, KwConstruccionTilde, KwConstruccion,
     KwAmarillo, KwPintura, VerdeAgricultura, RojoConstruccion,
     AmarilloPintura, SinCategoria,
     <<"V", "E", "R", "D", "E">>, <<"R", "O", "J", "O">>,
     <<"C", "O", "N", "S", "T", "R", "U", "C", "C", "I", "Ó", "N">>,
     <<"P", "I", "N", "T", "U", "R", "A">>,
     <<"a", "z", "u", "l">>, <<" ", "-", " ">>, <<>>}

\* "Rojo - Construcción" and "azul"
EjemploRojo == <<"R", "o", "j", "o", " ", "-", " ", "C", "o", "n", "s",
        "t", "r", "u", "c", "c", "i", "ó", "n">>
EjemploAzul == <<"a", "z", "u", "l">>

\* the arguments of normalizar_categoria: two pieces, and the examples
TextosCategoria ==
    { a \o b : a \in Fragmentos, b \in Fragmentos }
        \cup {EjemploRojo, EjemploAzul}

\* the bot is not running
BotOff ==
    /\ pc = "off"
    /\ DATABASE_URL = NoURL
    /\ pgUp = FALSE
    /\ USING_POSTGRES = FALSE
    /\ conectoEnArranque = FALSE
    /\ sqliteIniciada = FALSE
    /\ pgTabla = FALSE
    /\ pgProductos = <<>>
    /\ sqliteTabla = FALSE
    /\ sqliteProductos = <<>>
    /\ reloj = 0
    /\ ult = Ult("none", <<>>)

ParseInit ==
    /\ parsePc = "call" /\ texto \in Textos \cup TextosCategoria
    /\ precioOut = None
    /\ categoriaOut = <<>>
    /\ PGHOST = TRUE /\ conexiones = SinConexiones /\ dash = SinDashboard
    /\ BotOff

Extraer ==
    /\ parsePc = "call"
    /\ parsePc' = "ret"
    /\ precioOut' = extraer_precio_de_texto(texto)
    /\ UNCHANGED <<texto, categoriaOut, botVars, PGHOST, conexiones, dash>>

Normalizar ==
    /\ parsePc = "call"
    /\ parsePc' = "cat"
    /\ categoriaOut' = normalizar_categoria(texto)
    /\ UNCHANGED <<texto, precioOut, botVars, PGHOST, conexiones, dash>>

ParseNext == Extraer \/ Normalizar

SpecParse == ParseInit /\ [][ParseNext]_vars

(***************************************************************************)
(* SpecEquiv: the same sequence of inserts run against FerreteriaDB on a   *)
(* healthy server and against the SQLite functions, side by side.          *)
(***************************************************************************)
EqInit ==
    /\ pc = "eq_boot"
    /\ DATABASE_URL = [set |-> TRUE, puerto |-> "5432"]
    /\ pgUp = TRUE
    /\ USING_POSTGRES = FALSE
    /\ conectoEnArranque = FALSE
    /\ sqliteIniciada = FALSE
    /\ pgTabla = FALSE
    /\ pgProductos = <<>>
    /\ sqliteTabla = FALSE
    /\ sqliteProductos = <<>>
    /\ reloj = 0
    /\ ult = Ult("none", <<>>)
    /\ FueraIdle

\* init_database on the server and init_sqlite on the file
EqIniciar ==
    /\ pc = "eq_boot"
    /\ pc' = "eq"
    /\ pgTabla' = init_database(pgUp, pgTabla, FALSE)
    /\ sqliteTabla' = init_sqlite(sqliteTabla)
    /\ UNCHANGED <<envVars, USING_POSTGRES, conectoEnArranque, sqliteIniciada,
                   pgProductos, sqliteProductos, reloj, ult, fueraVars>>

\* the records handed to both implementations: the parses of Respuestas
\* and of a price line followed by one other line of the format
RespuestasEquiv ==
    Respuestas \cup { <<LineaPrecio, b>> :
                        b \in {LineaCategoriaRojo, LineaCodigo, LineaDescripcion} }

ParseadasEquiv == { ParsearRespuesta(resp) : resp \in RespuestasEquiv }

\* one validated record handed to both implementations
EqInsertar(user, d) ==
    /\ pc = "eq"
    /\ PrecioValido(d.precio)
    /\ \E rpg \in {insertar_producto(pgUp, pgTabla, pgProductos, reloj, FALSE,
                                     Producto(user, d))},
          rsq \in {insertar_producto_sqlite(sqliteTabla, sqliteProductos,
                                            reloj, FALSE, Producto(user, d))} :
          /\ Len(rpg.rows) <= MaxProductos
          /\ Len(rsq.rows) <= MaxProductos
          /\ pgProductos' = rpg.rows
          /\ sqliteProductos' = rsq.rows
          /\ ult' = [Ult("equiv", <<>>) EXCEPT
                        !.precio = d.precio,
                        !.ret = [op |-> "insertar", res |-> rpg.res,
                                 val |-> <<rpg.val, rsq.val>>]]
    /\ UNCHANGED <<pc, envVars, USING_POSTGRES, conectoEnArranque,
                   sqliteIniciada, pgTabla, sqliteTabla, reloj, fueraVars>>

\* the total of today asked of both implementations at second t
EqTotales ==
    /\ pc = "eq"
    /\ ult' = [Ult("totales", <<>>) EXCEPT
                  !.ret = [op |-> "totales", res |-> "ok",
                           val |-> [pg |-> obtener_total_ventas_hoy(pgUp,
                                        pgTabla, pgProductos, reloj, FALSE).val,
                                    sqlite |-> InformeSqlite(DelDia(
                                        sqliteProductos,
                                        reloj \div SegPorDia)).informe.total,
                                    t |-> reloj]]]
    /\ UNCHANGED <<pc, envVars, USING_POSTGRES, conectoEnArranque,
                   sqliteIniciada, storeVars, reloj, fueraVars>>

EqNext ==
    \/ EqIniciar
    \/ EqTotales
    \/ \E user \in Usuarios, d \in ParseadasEquiv : EqInsertar(user, d)
    \/ Tick

SpecEquiv == EqInit /\ [][EqNext]_vars

(***************************************************************************)
(* SpecConn: the storage operations with their connections counted.  A     *)
(* connection stays open until close() is called on it; one that no name   *)
(* refers to any more is closed when the interpreter finalises it, which   *)
(* the language does not tie to the return of the function.                *)
(***************************************************************************)
\* the mutant of OrigenConexion used by C18: the discrete parameters are
\* preferred when they are set
OrigenConexionParams(url) == IF PGHOST THEN "params" ELSE "url"

\* get_connection: psycopg2.connect(database_url) when DATABASE_URL is set,
\* else psycopg2.connect(**self.db_params)
OrigenConexion(url) == IF url.set THEN "url" ELSE "params"

ConnOperaciones ==
    Lecturas \cup {"init_database", "insertar_producto", "init_sqlite",
                   "insertar_producto_sqlite"}

\* the connections op leaves open when it returns: init_database calls
\* conn.close() after the with block, which an exception in the block
\* skips; insertar_producto and the obtener_ methods use the connection as
\* a context manager, which commits or rolls back and does not close;
\* insertar_producto_sqlite calls conn.close() in the try block only
Deja(op, falla) ==
    CASE op = "init_database" -> IF pgUp /\ falla THEN 1 ELSE 0
      [] op = "insertar_producto" \/ op \in Lecturas -> IF pgUp THEN 1 ELSE 0
      [] op = "insertar_producto_sqlite" ->
            IF falla \/ ~sqliteTabla THEN 1 ELSE 0
      [] op = "init_sqlite" -> 0

ConnInit ==
    /\ pc = "conn"
    /\ DATABASE_URL \in {NoURL, [set |-> TRUE, puerto |-> "5432"]}
    /\ PGHOST \in BOOLEAN
    /\ pgUp \in BOOLEAN
    /\ USING_POSTGRES = FALSE
    /\ conectoEnArranque = FALSE
    /\ sqliteIniciada = FALSE
    /\ pgTabla = FALSE
    /\ pgProductos = <<>>
    /\ sqliteTabla = FALSE
    /\ sqliteProductos = <<>>
    /\ reloj = 0
    /\ ult = Ult("none", <<>>)
    /\ ParseIdle
    /\ conexiones = SinConexiones
    /\ dash = SinDashboard

\* one call of a storage operation, from its first statement to its return
ConnOperacion(op, falla, prod) ==
    /\ pc = "conn"
    /\ conexiones.abiertas + Deja(op, falla) <= MaxConexiones
    /\ conexiones' =
          [abiertas |-> conexiones.abiertas + Deja(op, falla),
           origenes |-> IF op \in {"init_sqlite", "insertar_producto_sqlite"}
                        THEN conexiones.origenes
                        ELSE conexiones.origenes
                                \cup {OrigenConexion(DATABASE_URL)}]
    /\ pgTabla' = IF op = "init_database"
                  THEN init_database(pgUp, pgTabla, falla) ELSE pgTabla
    /\ sqliteTabla' = IF op = "init_sqlite" THEN init_sqlite(sqliteTabla)
                      ELSE sqliteTabla
    /\ pgProductos' =
          IF op = "insertar_producto" /\ pgUp
          THEN insertar_producto(pgUp, pgTabla, pgProductos, reloj, falla,
                                 prod).rows
          ELSE pgProductos
    /\ sqliteProductos' =
          IF op = "insertar_producto_sqlite"
          THEN insertar_producto_sqlite(sqliteTabla, sqliteProductos, reloj,
                                        falla, prod).rows
          ELSE sqliteProductos
    /\ Len(pgProductos') <= MaxProductos
    /\ Len(sqliteProductos') <= MaxProductos
    /\ UNCHANGED <<pc, envVars, USING_POSTGRES, conectoEnArranque,
                   sqliteIniciada, reloj, ult, parseVars, PGHOST, dash>>

\* the interpreter finalises the connections nothing refers to
Recolectar ==
    /\ pc = "conn"
    /\ conexiones.abiertas > 0
    /\ conexiones' = [conexiones EXCEPT !.abiertas = 0]
    /\ UNCHANGED <<botVars, parseVars, PGHOST, dash>>

ConnNext ==
    \/ \E op \in ConnOperaciones, falla \in BOOLEAN :
          \E d \in { ParsearRespuesta(<<l>>) :
                         l \in {LineaPrecio, LineaPrecioEnorme} } :
             ConnOperacion(op, falla, Producto(CHOOSE u \in Usuarios : TRUE, d))
    \/ Recolectar
    \/ CambiaServidor

SpecConn == ConnInit /\ [][ConnNext]_vars

(***************************************************************************)
(* SpecDash: the dashboard process beside the bot.  The two share the      *)
(* environment and the stores; the dashboard selects its backend once, at  *)
(* its start, and reads all records through a cache on every run of its    *)
(* script.                                                                 *)
(***************************************************************************)
\* ttl=30 of st.cache_data, in ticks of the model's clock
TtlCache == 1

\* init_database of the dashboard: the backend it returns, and the SQLite
\* table after it.  CREATE TABLE runs only in the branch without a
\* PostgreSQL URL; the probe of the URL creates nothing, and a failed probe
\* returns 'sqlite' without touching the file
dashboard_init_database(url, up) ==
    IF url.set
    THEN IF up /\ PuertoEsNumero(url)
         THEN [db_type |-> "postgresql", sqliteTabla |-> sqliteTabla]
         ELSE [db_type |-> "sqlite", sqliteTabla |-> sqliteTabla]
    ELSE [db_type |-> "sqlite", sqliteTabla |-> TRUE]

\* the results obtener_todos_los_datos can compute on the backend db_type:
\* all rows, newest first; any exception (no server, no table) is caught
\* and gives the empty frame after st.error
obtener_todos_los_datos(db_type) ==
    IF db_type = "postgresql"
    THEN IF pgUp /\ pgTabla
         THEN { [datos |-> o, error |-> FALSE] :
                    o \in OrdenadosDesc(pgProductos) }
         ELSE { [datos |-> <<>>, error |-> TRUE] }
    ELSE IF sqliteTabla
         THEN { [datos |-> o, error |-> FALSE] :
                    o \in OrdenadosDesc(sqliteProductos) }
         ELSE { [datos |-> <<>>, error |-> TRUE] }

\* the first run of the script: `db_type, db_connection = init_database()`
DashArranque ==
    /\ dash.db_type = "none"
    /\ LET r == dashboard_init_database(DATABASE_URL, pgUp) IN
          /\ dash' = [dash EXCEPT !.db_type = r.db_type, !.evento = "inicio"]
          /\ sqliteTabla' = r.sqliteTabla
    /\ UNCHANGED <<pc, envVars, USING_POSTGRES, conectoEnArranque,
                   sqliteIniciada, pgVars, sqliteProductos, reloj, ult,
                   parseVars, PGHOST, conexiones>>

\* the mutant of DashLeer used by C17: a script run that ignores the cache
DashLeerSinCache ==
    /\ dash.db_type # "none"
    /\ \E r \in obtener_todos_los_datos(dash.db_type) :
          dash' = [dash EXCEPT
                     !.cache = [hay |-> TRUE, t |-> reloj, datos |-> r.datos],
                     !.visto = r.datos, !.evento = "lectura",
                     !.recalculo = TRUE, !.error = r.error]
    /\ UNCHANGED <<botVars, parseVars, PGHOST, conexiones>>

\* a run of the script: `df = obtener_todos_los_datos()` under
\* @st.cache_data(ttl=30): the cached value while its 30 seconds last,
\* else the body runs and its result is cached
DashLeer ==
    /\ dash.db_type # "none"
    /\ IF dash.cache.hay /\ reloj < dash.cache.t + TtlCache
       THEN dash' = [dash EXCEPT !.visto = dash.cache.datos,
                                 !.evento = "lectura", !.recalculo = FALSE]
       ELSE \E r \in obtener_todos_los_datos(dash.db_type) :
               dash' = [dash EXCEPT
                          !.cache = [hay |-> TRUE, t |-> reloj,
                                     datos |-> r.datos],
                          !.visto = r.datos, !.evento = "lectura",
                          !.recalculo = TRUE, !.error = r.error]
    /\ UNCHANGED <<botVars, parseVars, PGHOST, conexiones>>

\* the refresh button: st.cache_data.clear() and st.rerun(), whose run of
\* the script finds the cache empty
DashRefrescar ==
    /\ dash.db_type # "none"
    /\ \E r \in obtener_todos_los_datos(dash.db_type) :
          dash' = [dash EXCEPT
                     !.cache = [hay |-> TRUE, t |-> reloj, datos |-> r.datos],
                     !.visto = r.datos, !.evento = "refresco",
                     !.recalculo = TRUE, !.error = r.error]
    /\ UNCHANGED <<botVars, parseVars, PGHOST, conexiones>>

\* the bot starts and stores photos while the dashboard runs
DashNext ==
    \/ DashArranque
    \/ DashLeer
    \/ DashRefrescar
    \/ \E falla \in BOOLEAN : Arranque(falla)
    \/ \E user \in Usuarios :
          \E d \in { ParsearRespuesta(<<l>>) :
                        l \in {LineaPrecio, LineaPrecioEnorme} } :
             HandlePhoto(user, d, "ok", FALSE)
    \/ CambiaServidor
    \/ Tick

SpecDash == Init /\ [][DashNext]_vars

(***************************************************************************)
(* SpecInforme: estadisticas_hoy query by query.  The handler does not     *)
(* yield between its queries, so no other handler of the bot runs in       *)
(* between; each query is a statement of its own on the server or the      *)
(* file, and another process that writes to the same store, the server's   *)
(* state and the clock can change between two of them.  pc holds the       *)
(* query the handler is about to run.                                      *)
(***************************************************************************)
\* what a query of the report read: the rows of today in the table at that
\* instant, and whether the statement ran
LeidoEn(tabla, rows, falla) ==
    [ok |-> tabla /\ ~falla, filas |-> DelDia(rows, reloj \div SegPorDia)]

\* total_ventas = db.obtener_total_ventas_hoy()
EstTotal(falla) ==
    /\ pc = "run" /\ USING_POSTGRES
    /\ LET r == obtener_total_ventas_hoy(pgUp, pgTabla, pgProductos, reloj,
                                         falla)
       IN  IF r.res = "raise"
           THEN /\ ult' = Ult("estadisticas_hoy", <<"error_estadisticas">>)
                /\ pc' = "run"
           ELSE /\ ult' = [Ult("estadisticas_hoy", <<>>) EXCEPT
                     !.informe = [hay |-> FALSE, total |-> r.val,
                                  productos |-> 0, porCat |-> <<>>,
                                  leido |-> <<LeidoEn(pgTabla, pgProductos,
                                                      falla)>>]]
                /\ pc' = "est_ventas"
    /\ UNCHANGED <<envVars, USING_POSTGRES, conectoEnArranque,
                   sqliteIniciada, storeVars, reloj, fueraVars>>

\* ventas_hoy = db.obtener_ventas_hoy(), whose length is total_productos
EstVentas(falla) ==
    /\ pc = "est_ventas"
    /\ LET r == obtener_ventas_hoy(pgUp, pgTabla, pgProductos, reloj, falla)
       IN  IF r.res = "raise"
           THEN /\ ult' = Ult("estadisticas_hoy", <<"error_estadisticas">>)
                /\ pc' = "run"
           ELSE /\ ult' = [ult EXCEPT
                     !.informe.productos = Len(r.val),
                     !.informe.leido =
                         Append(@, LeidoEn(pgTabla, pgProductos, falla))]
                /\ pc' = "est_categorias"
    /\ UNCHANGED <<envVars, USING_POSTGRES, conectoEnArranque,
                   sqliteIniciada, storeVars, reloj, fueraVars>>

\* productos_por_categoria = db.obtener_productos_por_categoria(), then the
\* message is built from the three results and sent
EstCategorias(falla) ==
    /\ pc = "est_categorias"
    /\ LET r == obtener_productos_por_categoria(pgUp, pgTabla, pgProductos,
                                                reloj, falla)
       IN  IF r.res = "raise"
           THEN ult' = Ult("estadisticas_hoy", <<"error_estadisticas">>)
           ELSE ult' = [ult EXCEPT
                     !.respuestas = <<"estadisticas">>,
                     !.informe.hay = TRUE,
                     !.informe.porCat = r.val,
                     !.informe.leido =
                         Append(@, LeidoEn(pgTabla, pgProductos, falla))]
    /\ pc' = "run"
    /\ UNCHANGED <<envVars, USING_POSTGRES, conectoEnArranque,
                   sqliteIniciada, storeVars, reloj, fueraVars>>

\* the SQLite branch, first statement: COUNT(*) and SUM(precio) of today;
\* an exception of sqlite3 reaches the handler's except clause
EstSqliteTotales(falla) ==
    /\ pc = "run" /\ ~USING_POSTGRES
    /\ IF falla \/ ~sqliteTabla
       THEN /\ ult' = Ult("estadisticas_hoy", <<"error_estadisticas">>)
            /\ pc' = "run"
       ELSE /\ LET l == LeidoEn(sqliteTabla, sqliteProductos, falla)
               IN  ult' = [Ult("estadisticas_hoy", <<>>) EXCEPT
                     !.informe = [hay |-> FALSE,
                                  total |-> SumaPrecios(l.filas),
                                  productos |-> Len(l.filas),
                                  porCat |-> <<>>, leido |-> <<l>>]]
            /\ pc' = "est_sqlite_categorias"
    /\ UNCHANGED <<envVars, USING_POSTGRES, conectoEnArranque,
                   sqliteIniciada, storeVars, reloj, fueraVars>>

\* the SQLite branch, second statement: the same per category, then the
\* message is built and sent
EstSqliteCategorias(falla) ==
    /\ pc = "est_sqlite_categorias"
    /\ IF falla \/ ~sqliteTabla
       THEN ult' = Ult("estadisticas_hoy", <<"error_estadisticas">>)
       ELSE LET l == LeidoEn(sqliteTabla, sqliteProductos, falla)
            IN  ult' = [ult EXCEPT
                     !.respuestas = <<"estadisticas">>,
                     !.informe.hay = TRUE,
                     !.informe.porCat = PorCategoria(l.filas),
                     !.informe.leido = Append(@, l)]
    /\ pc' = "run"
    /\ UNCHANGED <<envVars, USING_POSTGRES, conectoEnArranque,
                   sqliteIniciada, storeVars, reloj, fueraVars>>

\* an insert by another process that uses the same store (a second
\* instance of the bot): its INSERT is a statement of its own
InsertaOtro(backend, prod) ==
    /\ pgProductos' =
          IF backend = "PostgreSQL"
          THEN insertar_producto(pgUp, pgTabla, pgProductos, reloj, FALSE,
                                 prod).rows
          ELSE pgProductos
    /\ sqliteProductos' =
          IF backend = "SQLite"
          THEN insertar_producto_sqlite(sqliteTabla, sqliteProductos, reloj,
                                        FALSE, prod).rows
          ELSE sqliteProductos
    /\ Len(pgProductos') <= MaxProductos
    /\ Len(sqliteProductos') <= MaxProductos
    /\ <<pgProductos', sqliteProductos'>> # <<pgProductos, sqliteProductos>>
    /\ UNCHANGED <<envVars, bootVars, pgTabla, sqliteTabla, reloj, ult,
                   fueraVars>>

InformeNext ==
    \/ Arranque(FALSE)
    \/ \E falla \in BOOLEAN : EstTotal(falla)
    \/ \E falla \in BOOLEAN : EstVentas(falla)
    \/ \E falla \in BOOLEAN : EstCategorias(falla)
    \/ \E falla \in BOOLEAN : EstSqliteTotales(falla)
    \/ \E falla \in BOOLEAN : EstSqliteCategorias(falla)
    \/ \E user \in Usuarios :
          HandlePhoto(user, ParsearRespuesta(<<LineaPrecio,
                                               LineaCategoriaRojo>>),
                      "ok", FALSE)
    \/ \E backend \in {"PostgreSQL", "SQLite"}, user \in Usuarios :
          InsertaOtro(backend,
                      Producto(user, ParsearRespuesta(<<LineaPrecio>>)))
    \/ CambiaServidor
    \/ Tick

SpecInforme == Init /\ [][InformeNext]_vars

(***************************************************************************)
(* Properties.                                                             *)
(***************************************************************************)
Filas(rows) == { rows[k] : k \in 1..Len(rows) }

Enviada(r) == \E k \in 1..Len(ult.respuestas) : ult.respuestas[k] = r

\* C1: once the module-level code has run, a PostgreSQL backend that could
\* not be validated at startup (no connection was opened) means the SQLite
\* backend is pinned: USING_POSTGRES is False and init_sqlite() has run.
C1_FallbackSiNoConecta ==
    (pc = "run" /\ ~conectoEnArranque) => (~USING_POSTGRES /\ sqliteIniciada)

\* C2: insertar_producto never raises to its caller: whatever fails,
\* the connection included, it returns (False) instead.
C2_InsertarNoLanza ==
    ult.ret.op = "insertar_producto" => ult.ret.res = "ok"

\* C3: every row of either table has precio > 0, after any sequence of
\* photo events.
C3_PreciosPositivos ==
    \A r \in Filas(pgProductos) \cup Filas(sqliteProductos) : Positivo(r.precio)

\* a photo whose price was 0 has been handled while the table holds rows
C3_Witness ==
    /\ pgProductos # <<>>
    /\ ult.h = "handle_photo" /\ ult.parseado /\ ult.precio = Cero

\* C4: a photo event whose extracted price is missing or <= 0 leaves both
\* tables as they were, and the 'not saved' reply is sent, not the
\* 'registered' one.
C4_PrecioInvalidoNoGuarda ==
    [][(ult'.h = "handle_photo" /\ ult'.parseado /\ ~PrecioValido(ult'.precio))
        => /\ UNCHANGED <<pgProductos, sqliteProductos>>
           /\ \E k \in 1..Len(ult'.respuestas) : ult'.respuestas[k] = "no_guardado"
           /\ \A k \in 1..Len(ult'.respuestas) : ult'.respuestas[k] # "registrado"]_vars

\* a photo with no price in its text has been handled, with rows stored
C4_Witness ==
    /\ sqliteProductos # <<>>
    /\ ult.h = "handle_photo" /\ ult.parseado /\ ult.precio = None
    /\ Enviada("no_guardado")

\* C5: within a run no step changes USING_POSTGRES or probes again, and the
\* backend an insert used is the pinned one.
C5_BackendFijo ==
    [][(pc = "run" /\ pc' = "run")
        => /\ USING_POSTGRES' = USING_POSTGRES
           /\ conectoEnArranque' = conectoEnArranque
           /\ sqliteIniciada' = sqliteIniciada
           /\ ult'.db_usado = "PostgreSQL" => USING_POSTGRES
           /\ ult'.db_usado = "SQLite" => ~USING_POSTGRES]_vars

\* an insert has failed in the server and the run is still on PostgreSQL
C5_Witness ==
    /\ pc = "run" /\ USING_POSTGRES
    /\ ult.h = "handle_photo" /\ ult.ret.op = "insertar_producto"
    /\ ult.ret.res = "ok" /\ ~ult.guardado

\* the rows with the sub-second part of the timestamps dropped
SinFraccion(rows) ==
    [k \in 1..Len(rows) |-> [rows[k] EXCEPT !.fecha_hora.u = 0]]

\* C6: the same inserts give, on PostgreSQL and on SQLite, the same success
\* signals, the same rows in the same descending-timestamp order, and the
\* same count, total and per-category breakdown of the day.
C6_MismosResultados ==
    pc = "eq" =>
        /\ ult.ret.op = "insertar" => ult.ret.val[1] = ult.ret.val[2]
        /\ \A o \in OrdenadosDesc(sqliteProductos) :
              SinFraccion(o) =
                SinFraccion(obtener_todos_productos(pgUp, pgTabla, pgProductos,
                                                    reloj, FALSE).val)
        /\ Len(DelDia(sqliteProductos, reloj \div SegPorDia))
              = Len(obtener_ventas_hoy(pgUp, pgTabla, pgProductos, reloj, FALSE).val)
        /\ SumaPrecios(DelDia(sqliteProductos, reloj \div SegPorDia))
              = obtener_total_ventas_hoy(pgUp, pgTabla, pgProductos, reloj, FALSE).val
        /\ PorCategoria(DelDia(sqliteProductos, reloj \div SegPorDia))
              = obtener_productos_por_categoria(pgUp, pgTabla, pgProductos,
                                                reloj, FALSE).val

\* C7: no read method of FerreteriaDB raises: each returns its empty result
\* when the backend fails, the connection included.
C7_LecturasNoLanzan ==
    ult.ret.op \in Lecturas => ult.ret.res = "ok"

\* rows2 is rows with one row appended
Crece(rows, rows2) ==
    Len(rows2) = Len(rows) + 1 /\ SubSeq(rows2, 1, Len(rows)) = rows

\* C8: a step changes the rows of a table only by appending one row to the
\* table of the pinned backend, and only a photo event that was saved does;
\* startup, the queries, failed inserts and rejected events change no row.
C8_SoloAgrega ==
    [][IF /\ pc = "run" /\ pc' = "run" /\ reloj' = reloj /\ pgUp' = pgUp
          /\ ult'.h = "handle_photo" /\ ult'.guardado
       THEN IF USING_POSTGRES
            THEN Crece(pgProductos, pgProductos') /\ UNCHANGED sqliteProductos
            ELSE Crece(sqliteProductos, sqliteProductos') /\ UNCHANGED pgProductos
       ELSE UNCHANGED <<pgProductos, sqliteProductos>>]_vars

\* a second row has been stored after the first, and the process has
\* started again over the stored rows
C8_Witness ==
    /\ Len(pgProductos) = 2 /\ pc = "run" /\ ult.h = "arranque"

\* C9: the categoria of every stored row is one of the four fixed values.
C9_CategoriaFija ==
    \A r \in Filas(pgProductos) \cup Filas(sqliteProductos) :
        r.categoria \in Categorias

\* rows were stored from a response with a category line that names a
\* category and from one that names none
C9_Witness ==
    /\ \E r \in Filas(sqliteProductos) : r.categoria = RojoConstruccion
    /\ \E r \in Filas(sqliteProductos) : r.categoria = SinCategoria

\* "$" followed by four or more digits and nothing else
EsPrefijoCorrido(t) ==
    Len(t) >= 5 /\ t[1] = "$" /\ \A k \in 2..Len(t) : IsDigit(t[k])

\* C10: for a currency-prefixed amount the parser returns the whole amount:
\* 1234.56 for "$1,234.56", and for "$" followed by a run of four or more
\* digits the value of the whole run.
C10_MontoCompleto ==
    parsePc = "ret" =>
        /\ texto = EjemploComas => precioOut = [ent |-> 1234, cent |-> 56]
        /\ EsPrefijoCorrido(texto) =>
              precioOut = [ent |-> Entero(Tail(texto)), cent |-> 0]

\* "1 $2": a bare number, then a currency-prefixed amount
EjemploNumeroAntes == <<"1", " ", "$", "2">>

\* pattern p matches somewhere in t
Aparece(p, t) == \E i \in 1..Len(t) : MatchAt(p, t, i) # NoMatch

\* C11: the parser returns the value of the leftmost match of the first of
\* the three patterns (prefixed amount, suffixed amount, bare number) that
\* matches anywhere; a prefixed amount wins over an earlier bare number;
\* a text of digits only yields their value; a text without digit None.
C11_PrimerPatronGana ==
    parsePc = "ret" =>
        /\ IF \E p \in 1..3 : Aparece(p, texto)
           THEN \E p \in 1..3, i \in 1..Len(texto) :
                   /\ \A q \in 1..(p - 1) : ~Aparece(q, texto)
                   /\ MatchAt(p, texto, i) # NoMatch
                   /\ \A j \in 1..(i - 1) : MatchAt(p, texto, j) = NoMatch
                   /\ precioOut = Float(QuitarComas(MatchAt(p, texto, i)))
           ELSE precioOut = None
        /\ (\A k \in 1..Len(texto) : ~IsDigit(texto[k])) => precioOut = None
        /\ (texto # <<>> /\ \A k \in 1..Len(texto) : IsDigit(texto[k]))
              => precioOut = [ent |-> Entero(texto), cent |-> 0]
        /\ texto = EjemploNumeroAntes => precioOut = [ent |-> 2, cent |-> 0]

\* the parser has returned 2 for "1 $2"
C11_Witness ==
    /\ parsePc = "ret" /\ texto = EjemploNumeroAntes
    /\ precioOut = [ent |-> 2, cent |-> 0]

\* keyword kw occurs in t, letter case ignored
ContieneSinCaso(t, kw) ==
    \E i \in 1..(Len(t) - Len(kw) + 1) :
        \A k \in 1..Len(kw) : LowerChar(t[i + k - 1]) = kw[k]

\* C12: normalizar_categoria returns one of the four categories by
\* case-insensitive substring rules in fixed priority: green/agriculture
\* first, then red/construction, then yellow/paint, else 'Sin categoría'.
C12_PrioridadCategorias ==
    parsePc = "cat" =>
        LET verde == ContieneSinCaso(texto, KwVerde)
                        \/ ContieneSinCaso(texto, KwAgricultura)
            rojo == \/ ContieneSinCaso(texto, KwRojo)
                    \/ ContieneSinCaso(texto, KwConstruccionTilde)
                    \/ ContieneSinCaso(texto, KwConstruccion)
            amarillo == ContieneSinCaso(texto, KwAmarillo)
                           \/ ContieneSinCaso(texto, KwPintura)
        IN  /\ categoriaOut \in Categorias
            /\ verde => categoriaOut = VerdeAgricultura
            /\ (~verde /\ rojo) => categoriaOut = RojoConstruccion
            /\ (~verde /\ ~rojo /\ amarillo) => categoriaOut = AmarilloPintura
            /\ (~verde /\ ~rojo /\ ~amarillo) => categoriaOut = SinCategoria
            /\ texto = EjemploRojo => categoriaOut = RojoConstruccion
            /\ texto = EjemploAzul => categoriaOut = SinCategoria

\* a text with a red keyword in upper case before a green keyword has been
\* normalised to the green category
C12_Witness ==
    /\ parsePc = "cat"
    /\ texto = <<"R", "O", "J", "O">> \o KwVerde
    /\ categoriaOut = VerdeAgricultura

RECURSIVE SumaDelDia(_, _, _)
\* the sum of the prices of the first k rows whose timestamp is of day d
SumaDelDia(rows, k, d) ==
    IF k = 0 THEN Cero
    ELSE Suma(SumaDelDia(rows, k - 1, d),
              IF rows[k].fecha_hora.t \div SegPorDia = d THEN rows[k].precio
              ELSE Cero)

\* C13: after any sequence of inserts the total of today is the sum of the
\* prices of exactly the stored rows dated today, on either backend: rows
\* of another day are left out, and it is 0 when no row is of today.
C13_TotalDeHoy ==
    (pc = "eq" /\ ult.ret.op = "totales") =>
        LET d == ult.ret.val.t \div SegPorDia
        IN  /\ ult.ret.val.pg = SumaDelDia(pgProductos, Len(pgProductos), d)
            /\ ult.ret.val.sqlite
                  = SumaDelDia(sqliteProductos, Len(sqliteProductos), d)
            /\ (\A k \in 1..Len(pgProductos) :
                    pgProductos[k].fecha_hora.t \div SegPorDia # d)
                  => ult.ret.val.pg = Cero

\* the total was asked with a row of today and a row of another day stored
C13_Witness ==
    /\ pc = "eq" /\ ult.ret.op = "totales"
    /\ \E j, k \in 1..Len(pgProductos) :
          /\ pgProductos[j].fecha_hora.t \div SegPorDia
                = ult.ret.val.t \div SegPorDia
          /\ pgProductos[k].fecha_hora.t \div SegPorDia
                # ult.ret.val.t \div SegPorDia
    /\ ult.ret.val.pg = pgProductos[Len(pgProductos)].precio

\* C14: whenever no storage operation is in progress the process holds no
\* open connection, after any sequence of initialisations, inserts and
\* queries, failed ones included.
C14_SinConexionesAbiertas ==
    pc = "conn" => conexiones.abiertas = 0

\* C18: every connection the storage layer opens uses DATABASE_URL when it
\* is set, also when the discrete parameters are set as well, and the
\* discrete parameters only when the URL is absent.
C18_URLTienePrecedencia ==
    pc = "conn" =>
        /\ DATABASE_URL.set => conexiones.origenes \subseteq {"url"}
        /\ ~DATABASE_URL.set => conexiones.origenes \subseteq {"params"}

\* URL and discrete parameters are both set, and init_database and a later
\* insert have opened their connections
C18_Witness ==
    /\ pc = "conn" /\ DATABASE_URL.set /\ PGHOST
    /\ pgTabla /\ pgProductos # <<>>
    /\ conexiones.origenes = {"url"}

\* C15: every stored row has a non-empty description: a response without
\* description line, or with nothing after the label, stores the sentinel
\* 'Sin descripción'.
C15_DescripcionNoVacia ==
    \A r \in Filas(pgProductos) \cup Filas(sqliteProductos) :
        r.descripcion # <<>>

\* C19: a photo event whose response text was read sends, after the
\* 'analysing' notice, exactly one outcome reply, 'registered' or 'not
\* saved', and no 'error processing the image' reply.
C19_UnaSolaRespuesta ==
    (ult.h = "handle_photo" /\ ult.parseado) =>
        ult.respuestas \in {<<"analizando", "registrado">>,
                            <<"analizando", "no_guardado">>}

\* C16: whichever backend the dashboard's init_database returned, the record
\* table exists on that backend, so that the first reporting query finds it.
C16_TablaAntesDeConsultar ==
    /\ dash.db_type = "postgresql" => pgTabla
    /\ dash.db_type = "sqlite" => sqliteTabla

\* C17 as stated: a step of the dashboard recomputes the snapshot only when
\* the validity window of the cached one has expired.
C17_SoloAlExpirar ==
    [][(dash.cache.hay /\ dash' # dash /\ dash'.recalculo)
          => reloj >= dash.cache.t + TtlCache]_vars

\* C17, amended: the cached snapshot is replaced only when its validity
\* window has expired or the refresh button was pressed; within the window
\* a run of the script that is not the button's returns the cached snapshot
\* and leaves the cache as it is, whatever was inserted meanwhile.
C17_SoloAlExpirarORefrescar ==
    [][/\ (dash.cache.hay /\ dash'.cache # dash.cache)
             => \/ reloj >= dash.cache.t + TtlCache
                \/ dash'.evento = "refresco"
       /\ (dash.cache.hay /\ dash' # dash /\ dash'.evento = "lectura"
                /\ reloj < dash.cache.t + TtlCache)
             => /\ dash'.cache = dash.cache
                /\ dash'.visto = dash.cache.datos
                /\ ~dash'.recalculo]_vars

\* a run of the script within the window shows the cached snapshot although
\* the backend it reads holds more rows by now
C17_Witness ==
    /\ dash.evento = "lectura" /\ ~dash.recalculo
    /\ dash.cache.hay /\ reloj < dash.cache.t + TtlCache
    /\ dash.visto = dash.cache.datos
    /\ \/ dash.db_type = "postgresql"
             /\ Len(dash.visto) < Len(pgProductos)
       \/ dash.db_type = "sqlite"
             /\ Len(dash.visto) < Len(sqliteProductos)

\* C20: once the bot runs and the dashboard has selected its backend, the
\* dashboard selected 'postgresql' exactly when the bot's USING_POSTGRES is
\* true.
C20_MismoBackend ==
    (pc = "run" /\ dash.db_type # "none")
        => (USING_POSTGRES <=> dash.db_type = "postgresql")

RECURSIVE SumaCategorias(_, _)
\* the counts and the totals of the categories cs of a breakdown, added up
SumaCategorias(porCat, cs) ==
    IF cs = {} THEN [cantidad |-> 0, total |-> Cero]
    ELSE LET c == CHOOSE x \in cs : TRUE
             r == SumaCategorias(porCat, cs \ {c})
         IN  [cantidad |-> r.cantidad + porCat[c].cantidad,
              total |-> Suma(r.total, porCat[c].total)]

\* the total and the count of a report are those of its breakdown
Consistente(inf) ==
    LET s == SumaCategorias(inf.porCat, DOMAIN inf.porCat)
    IN  inf.total = s.total /\ inf.productos = s.cantidad

=============================================================================
